---- MODULE Spec2Model ----
(***************************************************************************)
(* A model of index.js of imap-to-tg: the lowdb store of processed UIDs,   *)
(* the Telegram sender with its p-retry loop, fetchAndProcess with its     *)
(* per-message promise chains, and start() with the handlers it registers  *)
(* on the node-imap connection.  One action is one run-to-completion step  *)
(* of the Node event loop: an event handler or timer callback together     *)
(* with the promise continuations (microtasks) that follow it.             *)
(***************************************************************************)
EXTENDS Integers, Sequences, FiniteSets, TLC

(* ------------------------------ bounds -------------------------------- *)
MaxUid == 2         \* message UIDs are 1..MaxUid
MaxStarts == 2      \* calls of start() in one process run
MaxPolls == 2       \* calls of fetchAndProcess() in one process run
MaxHttpFail == 4    \* failed HTTP attempts in one process run
MaxWriteFail == 1   \* failed store writes in one process run
MaxParseErr == 1    \* failed parses in one process run
MaxErrors == 4      \* 'error' events in one process run
MaxLen == 3         \* characters of a message body
MaxChars == 4       \* the largest MAX_BODY_CHARS

(* -------------------------- program constants ------------------------- *)
KeepLast == 2000        \* slice(-2000)
FetchLimit == 50        \* results.slice(0, 50)
SendRetries == 3        \* pRetry(..., { retries: 3 }) of sendTelegramMessage
ConnectRetries == 3     \* pRetry(..., { retries: 3 }) of start()

Uids == 1..MaxUid
Calls == 1..MaxStarts
Polls == 1..MaxPolls

VARIABLES
  alive,          \* FALSE once an unhandled 'error' event has killed the process
  hasUids,        \* db.data.processedUids is an array (FALSE: it is undefined)
  processedUids,  \* db.data.processedUids
  disk,           \* the content of DB_FILE: [hasUids, uids]
  loaded,         \* processedUids as read at startup
  marked,         \* the markProcessed calls so far, in call order: <<poll, uid>>
  mailbox,        \* the UNSEEN messages of the mailbox inside the search window
  imap,           \* the module-level `imap`: the session built by the latest start()
  nstarts,        \* start() calls made or scheduled so far
  call,           \* call[c]: the pRetry loop of the c-th start()
  sess,           \* sess[s]: the Imap object built by the s-th start(); sock is
                  \* "none", "connecting", "auth", "failed" (closed by an error)
                  \* or "ended"
  rh,             \* rh[s]: the async 'ready' handler registered on session s
  npolls,         \* fetchAndProcess() calls so far
  poll,           \* poll[p]: the p-th fetchAndProcess() call (len0: the length of
                  \* processedUids when it was called)
  pipe,           \* pipe[p][u]: the promise chain of message u in poll p
  waitQ,          \* the pending 5000 ms timers, in the order they were set
  writeQ,         \* the pending db.write() calls, in call order
  rechecked,      \* the <<poll, uid>> whose seen-check ran after a send of uid had
                  \* failed for good and before any send of uid had succeeded
  lim,            \* what the environment does at most in this run (fixed at Init)
  nerrors,        \* 'error' events so far
  fmt             \* the body text of one parsed message and the excerpt made of it

vars == <<alive, hasUids, processedUids, disk, loaded, marked, mailbox, imap,
          nstarts, call, sess, rh, npolls, poll, pipe, waitQ, writeQ, rechecked,
          lim, nerrors, fmt>>

storeVars == <<hasUids, processedUids, disk, loaded, marked>>
supVars == <<imap, nstarts, call, sess, rh>>
pollVars == <<npolls, poll>>
envVars == <<lim, nerrors>>

(* ------------------------------ helpers ------------------------------- *)
Min(S) == CHOOSE x \in S : \A y \in S : x <= y

RECURSIVE SortedSeq(_)
SortedSeq(S) == IF S = {} THEN <<>> ELSE <<Min(S)>> \o SortedSeq(S \ {Min(S)})

Range(q) == {q[i] : i \in 1..Len(q)}

\* Array.prototype.slice(0, n)
SliceFirst(q, n) == IF Len(q) <= n THEN q ELSE SubSeq(q, 1, n)

\* Array.prototype.slice(-n)
SliceLast(q, n) == IF Len(q) <= n THEN q ELSE SubSeq(q, Len(q) - n + 1, Len(q))

(* ------------------------------- store -------------------------------- *)
\* The stores the process can start from.  new Low(adapter, { lastEmailUid: null })
\* followed by db.read() leaves db.data at the default data when DB_FILE does not
\* exist (lowdb 6 and later), so `db.data ||= { processedUids: [] }` assigns
\* nothing and processedUids is undefined; a lowdb that ignores the second
\* argument leaves db.data null and the assignment gives the empty list; an
\* existing file gives the list it holds.
InitStores ==
  { [hasUids |-> FALSE, uids |-> <<>>],
    [hasUids |-> TRUE,  uids |-> <<>>],
    [hasUids |-> TRUE,  uids |-> <<1>>] }

\* A store file left by earlier runs that holds n uids: uid 1 is the oldest,
\* the others are of messages no longer in the search window.
OldStore(n) == [hasUids |-> TRUE, uids |-> [i \in 1..n |-> IF i = 1 THEN 1 ELSE MaxUid + i]]

\* The UNSEEN messages of the search window that arrived before the messages
\* Uids and were notified by an earlier run: FetchLimit of them, with the uids
\* below those of Uids (written here as negative numbers).
OldMail == {-u : u \in 1..FetchLimit}

\* hasProcessed(uid): undefined (falsy) when there is no list
hasProcessed(uid) == hasUids /\ uid \in Range(processedUids)

\* Pushed with slice(0, 2000) in place of slice(-2000)
PushedKeepOldest(list, uid) ==
  IF Len(Append(list, uid)) > KeepLast
    THEN SliceFirst(Append(list, uid), KeepLast)
    ELSE Append(list, uid)

\* the list after the synchronous part of markProcessed(uid): push, then slice(-2000)
Pushed(list, uid) ==
  IF Len(Append(list, uid)) > KeepLast
    THEN SliceLast(Append(list, uid), KeepLast)
    ELSE Append(list, uid)

(* ------------------------------ pipelines ----------------------------- *)
NoPipe == [st |-> "none", att |-> 0]

InFlightStates == {"parsing", "waiting", "sending", "writing"}
SendOkStates == {"writing", "sent", "markFailed"}

\* the polls in which the send of uid u has succeeded
SendsOk(u) == {p \in Polls : pipe[p][u].st \in SendOkStates}

\* HTTP attempts that have failed so far, over all pipelines
HttpFails ==
  LET F(p, u) == IF pipe[p][u].st = "failed" THEN pipe[p][u].att
                 ELSE IF pipe[p][u].att > 0 THEN pipe[p][u].att - 1 ELSE 0
      RECURSIVE Sum(_)
      Sum(S) == IF S = {} THEN 0
                ELSE LET x == CHOOSE x \in S : TRUE IN F(x[1], x[2]) + Sum(S \ {x})
  IN Sum(Polls \X Uids)

WriteFails == Cardinality({x \in Polls \X Uids : pipe[x[1]][x[2]].st = "markFailed"})

ParseErrs == Cardinality({x \in Polls \X Uids : pipe[x[1]][x[2]].st = "parseErr"})

\* MayRetrySend with one retry more
MayRetrySendOnceMore(att) == att < SendRetries + 2

\* one more HTTP attempt may follow a failed attempt number att
MayRetrySend(att) == att < SendRetries + 1

(* ----------------------------- formatting ----------------------------- *)
\* A string is a sequence of characters.
Chars == {"a", "&", "<", ">"}
Texts == UNION {[1..k -> Chars] : k \in 0..MaxLen}

\* the one character U+2026 (horizontal ellipsis)
Ellipsis == "..."

\* String.prototype.replace(/c/g, rep)
RECURSIVE ReplaceAll(_, _, _)
ReplaceAll(s, c, rep) ==
  IF s = <<>> THEN <<>>
  ELSE (IF Head(s) = c THEN rep ELSE <<Head(s)>>) \o ReplaceAll(Tail(s), c, rep)

\* String.prototype.slice(0, k)
Slice0(s, k) ==
  LET e == IF k < 0 THEN (IF Len(s) + k < 0 THEN 0 ELSE Len(s) + k)
           ELSE (IF k > Len(s) THEN Len(s) ELSE k)
  IN SubSeq(s, 1, e)

escapeHtml(str) ==
  ReplaceAll(ReplaceAll(ReplaceAll(str, "&", <<"&", "a", "m", "p", ";">>),
                        "<", <<"&", "l", "t", ";">>),
             ">", <<"&", "g", "t", ";">>)

\* shorten(s, n): the empty string is falsy
shorten(s, n) ==
  IF s = <<>> THEN <<>>
  ELSE IF Len(s) <= n THEN s
  ELSE Slice0(s, n - 1) \o <<Ellipsis>>

NoFmt == [pc |-> "none", text |-> <<>>, n |-> 0, bodyText |-> <<>>]

(* --------------------------- initial state ---------------------------- *)
NoCall == [st |-> "unused", att |-> 0]
NoSess == [sock |-> "none", box |-> FALSE, onReady |-> FALSE, onError |-> FALSE,
           onEnd |-> FALSE, mailH |-> 0, res |-> {}, rej |-> {}, endCalled |-> FALSE]
NoHandler == [st |-> "none", tgt |-> 0]
NoPoll == [st |-> "idle", sess |-> 0, owner |-> 0, cand |-> <<>>, next |-> 1, len0 |-> 0]

\* What the environment (mail server, Telegram, file system) does in one run
\* is bounded by one of these: many sessions with few polls, several sessions
\* with several polls, one healthy session with failing sends and writes, or
\* one healthy session with a store that earlier runs have filled, or one
\* healthy session with a mailbox in which FetchLimit notified messages are
\* still UNSEEN.
Scenarios ==
  { [starts |-> MaxStarts, polls |-> 1, errors |-> MaxErrors,
     httpFail |-> 0, writeFail |-> 0, parseErr |-> 0,
     stores |-> {[hasUids |-> TRUE, uids |-> <<>>]}, boxes |-> {{1}}],
    [starts |-> MaxStarts, polls |-> MaxPolls, errors |-> 1,
     httpFail |-> 0, writeFail |-> 0, parseErr |-> 0,
     stores |-> {[hasUids |-> TRUE, uids |-> <<>>]}, boxes |-> {{}, {1}}],
    [starts |-> 1, polls |-> MaxPolls, errors |-> 0,
     httpFail |-> MaxHttpFail, writeFail |-> MaxWriteFail, parseErr |-> MaxParseErr,
     stores |-> InitStores, boxes |-> SUBSET Uids],
    [starts |-> 1, polls |-> MaxPolls, errors |-> 0,
     httpFail |-> 0, writeFail |-> 0, parseErr |-> 0,
     stores |-> {OldStore(KeepLast - 1), OldStore(KeepLast)}, boxes |-> {Uids}],
    [starts |-> 1, polls |-> MaxPolls, errors |-> 0,
     httpFail |-> 0, writeFail |-> 0, parseErr |-> 0,
     stores |-> {[hasUids |-> TRUE, uids |-> SortedSeq(OldMail)]},
     boxes |-> {OldMail \cup {1}}] }

\* The state when the module body reaches its last statement, start(): the
\* store is loaded and written back, no session exists yet.
Init ==
  /\ alive = TRUE
  /\ nerrors = 0
  /\ \E sc \in Scenarios :
       /\ lim = sc
       /\ mailbox \in sc.boxes
       /\ \E s0 \in sc.stores :
            /\ hasUids = s0.hasUids
            /\ processedUids = s0.uids
            /\ disk = s0
            /\ loaded = s0.uids
            /\ marked = <<>>
  /\ imap = 0
  /\ nstarts = 1
  /\ call = [c \in Calls |-> IF c = 1 THEN [st |-> "pending", att |-> 0] ELSE NoCall]
  /\ sess = [s \in Calls |-> NoSess]
  /\ rh = [s \in Calls |-> NoHandler]
  /\ npolls = 0
  /\ poll = [p \in Polls |-> NoPoll]
  /\ pipe = [p \in Polls |-> [u \in Uids |-> NoPipe]]
  /\ waitQ = <<>>
  /\ writeQ = <<>>
  /\ rechecked = {}
  /\ fmt = NoFmt

(* ------------------------------ sessions ------------------------------ *)
\* node-imap's openBox/search refuse a connection that is not authenticated or
\* has no mailbox selected by throwing
Authenticated(ss, s) == s \in DOMAIN ss /\ ss[s].sock = "auth"
BoxOpen(ss, s) == Authenticated(ss, s) /\ ss[s].box

\* imap.connect(); imap.once("ready", res); imap.once("error", rej) of attempt
\* k of call c, on session g
Connect(ss, g, c, k) ==
  [ss EXCEPT ![g].sock = "connecting", ![g].box = FALSE,
             ![g].res = @ \cup {<<c, k>>}, ![g].rej = @ \cup {<<c, k>>}]

\* start(): build a session, register the three once-handlers, make the first
\* connect attempt
Start(c) ==
  /\ alive
  /\ call[c].st = "pending"
  /\ imap' = c
  /\ sess' = Connect([sess EXCEPT ![c] = [NoSess EXCEPT !.onReady = TRUE,
                                           !.onError = TRUE, !.onEnd = TRUE]],
                     c, c, 1)
  /\ call' = [call EXCEPT ![c] = [st |-> "waiting", att |-> 1]]
  /\ UNCHANGED <<fmt, rechecked, envVars, alive, storeVars, mailbox, nstarts, rh, pollVars, pipe, waitQ, writeQ>>

\* p-retry runs the next connect attempt after its backoff, on whatever
\* session the module-level `imap` names by then
ConnectRetry(c) ==
  /\ alive
  /\ call[c].st = "backoff"
  /\ sess' = Connect(sess, imap, c, call[c].att + 1)
  /\ call' = [call EXCEPT ![c] = [st |-> "waiting", att |-> call[c].att + 1]]
  /\ UNCHANGED <<fmt, rechecked, envVars, alive, storeVars, mailbox, imap, nstarts, rh, pollVars, pipe, waitQ, writeQ>>

\* the calls whose current attempt is settled by the handlers hs
Settled(hs) == {c \in Calls : call[c].st = "waiting" /\ <<c, call[c].att>> \in hs}

\* 'ready' on session s: the once-handler of start() begins (openBox is called
\* on the module-level imap), and every res registered on s resolves its attempt
EvReady(s) ==
  /\ alive
  /\ sess[s].sock = "connecting"
  /\ LET s1 == [sess EXCEPT ![s].sock = "auth", ![s].onReady = FALSE, ![s].res = {}]
     IN IF sess[s].onReady
          THEN IF Authenticated(s1, imap)
                 THEN /\ rh' = [rh EXCEPT ![s] = [st |-> "opening", tgt |-> imap]]
                      /\ sess' = s1
                 ELSE /\ rh' = [rh EXCEPT ![s] = [st |-> "openFailed", tgt |-> imap]]
                      /\ sess' = [s1 EXCEPT ![imap].endCalled = TRUE]
          ELSE /\ rh' = rh
               /\ sess' = s1
  /\ call' = [c \in Calls |-> IF c \in Settled(sess[s].res)
                                THEN [call[c] EXCEPT !.st = "connected"]
                                ELSE call[c]]
  /\ UNCHANGED <<fmt, rechecked, envVars, alive, storeVars, mailbox, imap, nstarts, pollVars, pipe, waitQ, writeQ>>

\* fetchAndProcess() called with the sessions ss: imap.search is issued on the
\* module-level imap, or throws at once
CanSearch(ss) == BoxOpen(ss, imap)
NewPoll(owner) == [st |-> "search", sess |-> imap, owner |-> owner, cand |-> <<>>, next |-> 1,
                   len0 |-> Len(processedUids)]

\* imap.on("mail", ...) on the module-level imap
AddMailHandler(ss) == [ss EXCEPT ![imap].mailH = @ + 1]

\* the openBox callback of the 'ready' handler of session s
OpenBoxDone(s, ok) ==
  /\ alive
  /\ rh[s].st = "opening"
  /\ Authenticated(sess, rh[s].tgt)
  /\ IF ok
       THEN LET s1 == [sess EXCEPT ![rh[s].tgt].box = TRUE]
            IN IF CanSearch(s1)
                 THEN /\ npolls < lim.polls
                      /\ npolls' = npolls + 1
                      /\ poll' = [poll EXCEPT ![npolls + 1] = NewPoll(s)]
                      /\ rh' = [rh EXCEPT ![s].st = "sweep"]
                      /\ sess' = s1
                 ELSE /\ rh' = [rh EXCEPT ![s].st = "listening"]
                      /\ sess' = AddMailHandler(s1)
                      /\ UNCHANGED pollVars
       ELSE /\ rh' = [rh EXCEPT ![s].st = "openFailed"]
            /\ sess' = [sess EXCEPT ![imap].endCalled = TRUE]
            /\ UNCHANGED pollVars
  /\ UNCHANGED <<fmt, rechecked, envVars, alive, storeVars, mailbox, imap, nstarts, call, pipe, waitQ, writeQ>>

\* EvError with p-retry giving up after the second retry
EvErrorGivesUpEarly(s, closes) ==
  /\ alive
  /\ sess[s].sock \in {"connecting", "auth"}
  /\ nerrors < lim.errors
  /\ nerrors' = nerrors + 1
  /\ IF ~sess[s].onError /\ sess[s].rej = {}
       THEN /\ alive' = FALSE
            /\ UNCHANGED supVars
       ELSE LET fired == Settled(sess[s].rej)
                exhausted == {c \in fired : call[c].att >= ConnectRetries}
                n == Cardinality(exhausted)
            IN /\ nstarts + n <= lim.starts
               /\ alive' = alive
               /\ nstarts' = nstarts + n
               /\ call' = [c \in Calls |->
                            IF c \in exhausted THEN [call[c] EXCEPT !.st = "failed"]
                            ELSE IF c \in fired THEN [call[c] EXCEPT !.st = "backoff"]
                            ELSE IF c > nstarts /\ c <= nstarts + n
                              THEN [st |-> "pending", att |-> 0]
                            ELSE call[c]]
               /\ sess' = [sess EXCEPT ![s].onError = FALSE, ![s].rej = {},
                                       ![s].sock = IF closes THEN "failed" ELSE @,
                                       ![s].box = IF closes THEN FALSE ELSE @]
               /\ UNCHANGED <<imap, rh>>
  /\ UNCHANGED <<fmt, rechecked, lim, storeVars, mailbox, pollVars, pipe, waitQ, writeQ>>

\* 'error' on session s.  Every listener is a once-listener: the logger of
\* start() and the rej of each connect attempt made on s.  With no listener
\* left the EventEmitter throws and the process dies.
EvError(s, closes) ==
  /\ alive
  /\ sess[s].sock \in {"connecting", "auth"}
  /\ nerrors < lim.errors
  /\ nerrors' = nerrors + 1
  /\ IF ~sess[s].onError /\ sess[s].rej = {}
       THEN /\ alive' = FALSE
            /\ UNCHANGED supVars
       ELSE LET fired == Settled(sess[s].rej)
                exhausted == {c \in fired : call[c].att >= ConnectRetries + 1}
                n == Cardinality(exhausted)
            IN /\ nstarts + n <= lim.starts
               /\ alive' = alive
               /\ nstarts' = nstarts + n
               /\ call' = [c \in Calls |->
                            IF c \in exhausted THEN [call[c] EXCEPT !.st = "failed"]
                            ELSE IF c \in fired THEN [call[c] EXCEPT !.st = "backoff"]
                            ELSE IF c > nstarts /\ c <= nstarts + n
                              THEN [st |-> "pending", att |-> 0]
                            ELSE call[c]]
               /\ sess' = [sess EXCEPT ![s].onError = FALSE, ![s].rej = {},
                                       ![s].sock = IF closes THEN "failed" ELSE @,
                                       ![s].box = IF closes THEN FALSE ELSE @]
               /\ UNCHANGED <<imap, rh>>
  /\ UNCHANGED <<fmt, rechecked, lim, storeVars, mailbox, pollVars, pipe, waitQ, writeQ>>

\* 'end' on session s: the once-handler of start() schedules start() in 5 s
EvEnd(s) ==
  /\ alive
  /\ sess[s].sock \in {"connecting", "auth"}
  /\ IF sess[s].onEnd
       THEN /\ nstarts < lim.starts
            /\ nstarts' = nstarts + 1
            /\ call' = [call EXCEPT ![nstarts + 1] = [st |-> "pending", att |-> 0]]
       ELSE UNCHANGED <<nstarts, call>>
  /\ sess' = [sess EXCEPT ![s].onEnd = FALSE, ![s].sock = "ended", ![s].box = FALSE]
  /\ UNCHANGED <<fmt, rechecked, envVars, alive, storeVars, mailbox, imap, rh, pollVars, pipe, waitQ, writeQ>>

\* the sessions with the mailbox open, and the 'mail' listeners they hold
Listeners == {s \in Calls : BoxOpen(sess, s) /\ sess[s].mailH > 0}
RECURSIVE CountListeners(_)
CountListeners(S) ==
  IF S = {} THEN 0
  ELSE LET s == CHOOSE s \in S : TRUE IN sess[s].mailH + CountListeners(S \ {s})

\* message u arrives in the mailbox; every open session emits 'mail', and each
\* listener calls fetchAndProcess()
NewMail(u) ==
  /\ alive
  /\ u \notin mailbox
  /\ mailbox' = mailbox \cup {u}
  /\ LET n == IF CanSearch(sess) THEN CountListeners(Listeners) ELSE 0
     IN /\ npolls + n <= lim.polls
        /\ npolls' = npolls + n
        /\ poll' = [p \in Polls |-> IF p > npolls /\ p <= npolls + n
                                      THEN NewPoll(0) ELSE poll[p]]
  /\ UNCHANGED <<fmt, rechecked, envVars, alive, storeVars, supVars, pipe, waitQ, writeQ>>

(* -------------------------- fetchAndProcess --------------------------- *)
\* fetchAndProcess() of poll p resolves: the 'ready' handler awaiting its
\* initial sweep goes on to register the 'mail' handler
Resolve(p) ==
  /\ poll' = [poll EXCEPT ![p].st = "resolved"]
  /\ IF poll[p].owner # 0
       THEN /\ rh' = [rh EXCEPT ![poll[p].owner].st = "listening"]
            /\ sess' = AddMailHandler(sess)
       ELSE UNCHANGED <<rh, sess>>

\* the imap.search callback
SearchDone(p, err) ==
  /\ alive
  /\ poll[p].st = "search"
  /\ BoxOpen(sess, poll[p].sess)
  /\ LET results == SortedSeq(mailbox)
     IN IF err \/ results = <<>>
          THEN Resolve(p)
          ELSE /\ poll' = [poll EXCEPT ![p].st = "fetch",
                                       ![p].cand = SliceFirst(results, FetchLimit)]
               /\ UNCHANGED <<rh, sess>>
  /\ UNCHANGED <<fmt, rechecked, envVars, alive, storeVars, mailbox, imap, nstarts, call, npolls, pipe, waitQ, writeQ>>

\* f.on("message"): the next message of the fetch; simpleParser starts.  The
\* chain of a message of OldMail is not followed: such a message is in the
\* Seen-Set throughout, and its chain returns at the seen-check.
FetchMessage(p) ==
  /\ alive
  /\ poll[p].st = "fetch"
  /\ poll[p].next <= Len(poll[p].cand)
  /\ BoxOpen(sess, poll[p].sess)
  /\ pipe' = IF poll[p].cand[poll[p].next] \in Uids
               THEN [pipe EXCEPT ![p][poll[p].cand[poll[p].next]] = [st |-> "parsing", att |-> 0]]
               ELSE pipe
  /\ poll' = [poll EXCEPT ![p].next = @ + 1]
  /\ UNCHANGED <<fmt, rechecked, envVars, alive, storeVars, mailbox, supVars, npolls, waitQ, writeQ>>

\* f.once("end")
FetchEnd(p) ==
  /\ alive
  /\ poll[p].st = "fetch"
  /\ poll[p].next > Len(poll[p].cand)
  /\ BoxOpen(sess, poll[p].sess)
  /\ Resolve(p)
  /\ UNCHANGED <<fmt, rechecked, envVars, alive, storeVars, mailbox, imap, nstarts, call, npolls, pipe, waitQ, writeQ>>

\* f.once("error")
FetchError(p) ==
  /\ alive
  /\ poll[p].st = "fetch"
  /\ Resolve(p)
  /\ UNCHANGED <<fmt, rechecked, envVars, alive, storeVars, mailbox, imap, nstarts, call, npolls, pipe, waitQ, writeQ>>

\* ParseDone with a parse error cancelling the pending 5000 ms timers
ParseDoneErrorAborts(p, u, ok) ==
  /\ alive
  /\ pipe[p][u].st = "parsing"
  /\ ok \/ ParseErrs < lim.parseErr
  /\ rechecked' = IF ok /\ SendsOk(u) = {} /\ \E q \in Polls : pipe[q][u].st = "failed"
                     THEN rechecked \cup {<<p, u>>} ELSE rechecked
  /\ IF ~ok
       THEN /\ pipe' = [pipe EXCEPT ![p][u].st = "parseErr"]
            /\ waitQ' = <<>>
       ELSE IF hasProcessed(u)
         THEN /\ pipe' = [pipe EXCEPT ![p][u].st = "skipped"]
              /\ UNCHANGED waitQ
         ELSE /\ pipe' = [pipe EXCEPT ![p][u].st = "waiting"]
              /\ waitQ' = Append(waitQ, <<p, u>>)
  /\ UNCHANGED <<fmt, envVars, alive, storeVars, mailbox, supVars, pollVars, writeQ>>

\* simpleParser settles: on a parse error the chain ends in .catch; otherwise
\* the seen-check runs and, for an unseen uid, the 5000 ms timer is set
ParseDone(p, u, ok) ==
  /\ alive
  /\ pipe[p][u].st = "parsing"
  /\ ok \/ ParseErrs < lim.parseErr
  /\ rechecked' = IF ok /\ SendsOk(u) = {} /\ \E q \in Polls : pipe[q][u].st = "failed"
                     THEN rechecked \cup {<<p, u>>} ELSE rechecked
  /\ IF ~ok
       THEN /\ pipe' = [pipe EXCEPT ![p][u].st = "parseErr"]
            /\ UNCHANGED waitQ
       ELSE IF hasProcessed(u)
         THEN /\ pipe' = [pipe EXCEPT ![p][u].st = "skipped"]
              /\ UNCHANGED waitQ
         ELSE /\ pipe' = [pipe EXCEPT ![p][u].st = "waiting"]
              /\ waitQ' = Append(waitQ, <<p, u>>)
  /\ UNCHANGED <<fmt, envVars, alive, storeVars, mailbox, supVars, pollVars, writeQ>>

\* WaitDone with markProcessed(uid) moved before sendTelegramMessage
WaitDoneMarkFirst ==
  /\ alive
  /\ waitQ # <<>>
  /\ pipe' = [pipe EXCEPT ![Head(waitQ)[1]][Head(waitQ)[2]] = [st |-> "sending", att |-> 1]]
  /\ waitQ' = Tail(waitQ)
  /\ processedUids' = IF hasUids THEN Pushed(processedUids, Head(waitQ)[2]) ELSE processedUids
  /\ UNCHANGED <<fmt, rechecked, envVars, alive, hasUids, disk, loaded, marked, mailbox, supVars, pollVars, writeQ>>

\* the oldest 5000 ms timer fires: sendTelegramMessage makes its first POST
WaitDone ==
  /\ alive
  /\ waitQ # <<>>
  /\ pipe' = [pipe EXCEPT ![Head(waitQ)[1]][Head(waitQ)[2]] = [st |-> "sending", att |-> 1]]
  /\ waitQ' = Tail(waitQ)
  /\ UNCHANGED <<fmt, rechecked, envVars, alive, storeVars, mailbox, supVars, pollVars, writeQ>>

\* HttpFail with the catch of the chain marking the uid processed
HttpFailMarks(p, u) ==
  /\ alive
  /\ pipe[p][u].st = "sending"
  /\ HttpFails < lim.httpFail
  /\ pipe' = [pipe EXCEPT ![p][u] =
                IF MayRetrySend(pipe[p][u].att)
                  THEN [st |-> "sending", att |-> pipe[p][u].att + 1]
                  ELSE [st |-> "failed", att |-> pipe[p][u].att]]
  /\ processedUids' = IF hasUids /\ ~MayRetrySend(pipe[p][u].att)
                         THEN Pushed(processedUids, u) ELSE processedUids
  /\ UNCHANGED <<fmt, rechecked, envVars, alive, hasUids, disk, loaded, marked, mailbox, supVars, pollVars,
                 waitQ, writeQ>>

\* a POST fails (network failure or non-2xx): p-retry tries again, or gives up
\* and sendTelegramMessage rejects into the catch of the chain
HttpFail(p, u) ==
  /\ alive
  /\ pipe[p][u].st = "sending"
  /\ HttpFails < lim.httpFail
  /\ pipe' = [pipe EXCEPT ![p][u] =
                IF MayRetrySend(pipe[p][u].att)
                  THEN [st |-> "sending", att |-> pipe[p][u].att + 1]
                  ELSE [st |-> "failed", att |-> pipe[p][u].att]]
  /\ UNCHANGED <<fmt, rechecked, envVars, alive, storeVars, mailbox, supVars, pollVars, waitQ, writeQ>>

\* HttpOk without the call of markProcessed(uid)
HttpOkNoMark(p, u) ==
  /\ alive
  /\ pipe[p][u].st = "sending"
  /\ pipe' = [pipe EXCEPT ![p][u].st = "sent"]
  /\ UNCHANGED <<fmt, rechecked, envVars, alive, storeVars, mailbox, supVars, pollVars, waitQ, writeQ>>

\* a POST succeeds: markProcessed(uid) pushes, trims and calls db.write()
HttpOk(p, u) ==
  /\ alive
  /\ pipe[p][u].st = "sending"
  /\ LET list == IF hasUids THEN Pushed(processedUids, u) ELSE processedUids
     IN /\ processedUids' = list
        /\ marked' = Append(marked, <<p, u>>)
        /\ writeQ' = Append(writeQ, [p |-> p, u |-> u,
                                     snap |-> [hasUids |-> hasUids, uids |-> list]])
  /\ pipe' = [pipe EXCEPT ![p][u].st = "writing"]
  /\ UNCHANGED <<fmt, rechecked, envVars, alive, hasUids, disk, loaded, mailbox, supVars, pollVars, waitQ>>

\* the oldest db.write() completes
WriteOk ==
  /\ alive
  /\ writeQ # <<>>
  /\ disk' = Head(writeQ).snap
  /\ pipe' = [pipe EXCEPT ![Head(writeQ).p][Head(writeQ).u].st = "sent"]
  /\ writeQ' = Tail(writeQ)
  /\ UNCHANGED <<fmt, rechecked, envVars, alive, hasUids, processedUids, loaded, marked, mailbox, supVars,
                 pollVars, waitQ>>

\* the oldest db.write() fails: markProcessed rejects into the catch of the chain
WriteFail ==
  /\ alive
  /\ writeQ # <<>>
  /\ WriteFails < lim.writeFail
  /\ pipe' = [pipe EXCEPT ![Head(writeQ).p][Head(writeQ).u].st = "markFailed"]
  /\ writeQ' = Tail(writeQ)
  /\ UNCHANGED <<fmt, rechecked, envVars, alive, storeVars, mailbox, supVars, pollVars, waitQ>>

(* ---------------------------- specification --------------------------- *)
Next ==
  \/ \E c \in Calls : Start(c)
  \/ \E c \in Calls : ConnectRetry(c)
  \/ \E s \in Calls : EvReady(s)
  \/ \E s \in Calls, ok \in BOOLEAN : OpenBoxDone(s, ok)
  \/ \E s \in Calls, closes \in BOOLEAN : EvError(s, closes)
  \/ \E s \in Calls : EvEnd(s)
  \/ \E u \in Uids : NewMail(u)
  \/ \E p \in Polls, err \in BOOLEAN : SearchDone(p, err)
  \/ \E p \in Polls : FetchMessage(p)
  \/ \E p \in Polls : FetchEnd(p)
  \/ \E p \in Polls : FetchError(p)
  \/ \E p \in Polls, u \in Uids, ok \in BOOLEAN : ParseDone(p, u, ok)
  \/ WaitDone
  \/ \E p \in Polls, u \in Uids : HttpFail(p, u)
  \/ \E p \in Polls, u \in Uids : HttpOk(p, u)
  \/ WriteOk
  \/ WriteFail

Spec == Init /\ [][Next]_vars

\* The formatting of one message, on its own: parsed.text is any text of at
\* most MaxLen characters and MAX_BODY_CHARS any number from 1 to MaxChars; the
\* rest of the program has just been started and stands still.
FormatInit ==
  /\ fmt \in [pc : {"parsed"}, text : Texts, n : 1..MaxChars, bodyText : {<<>>}]
  /\ alive = TRUE
  /\ nerrors = 0
  /\ lim = CHOOSE sc \in Scenarios : sc.httpFail > 0
  /\ mailbox = {}
  /\ hasUids = TRUE
  /\ processedUids = <<>>
  /\ disk = [hasUids |-> TRUE, uids |-> <<>>]
  /\ loaded = <<>>
  /\ marked = <<>>
  /\ imap = 0
  /\ nstarts = 1
  /\ call = [c \in Calls |-> IF c = 1 THEN [st |-> "pending", att |-> 0] ELSE NoCall]
  /\ sess = [s \in Calls |-> NoSess]
  /\ rh = [s \in Calls |-> NoHandler]
  /\ npolls = 0
  /\ poll = [p \in Polls |-> NoPoll]
  /\ pipe = [p \in Polls |-> [u \in Uids |-> NoPipe]]
  /\ waitQ = <<>>
  /\ writeQ = <<>>
  /\ rechecked = {}

\* const bodyText = shorten(escapeHtml(parsed.text || ...), Number(MAX_BODY_CHARS))
FormatBody ==
  /\ fmt.pc = "parsed"
  /\ fmt' = [fmt EXCEPT !.pc = "done", !.bodyText = shorten(escapeHtml(fmt.text), fmt.n)]
  /\ UNCHANGED <<alive, storeVars, mailbox, supVars, pollVars, pipe, waitQ, writeQ,
                 rechecked, envVars>>

FormatNext == FormatBody

FormatSpec == FormatInit /\ [][FormatNext]_vars

(* ------------------------------- claims ------------------------------- *)
MarkedUids == [i \in 1..Len(marked) |-> marked[i][2]]
Occ(q, x) == Cardinality({i \in 1..Len(q) : q[i] = x})
Active(p) == \E u \in Uids : pipe[p][u].st \in InFlightStates

\* C1: every uid in the Seen-Set, in memory or on disk, was loaded at startup
\* or has had a send complete successfully, and markProcessed has been called
\* for a uid exactly as often as a send for it has succeeded.
C1_MarkOnlyAfterSend ==
  /\ \A u \in Range(processedUids) \cup Range(disk.uids) :
       u \in Range(loaded) \/ SendsOk(u) # {}
  /\ \A u \in Uids : Occ(MarkedUids, u) = Cardinality(SendsOk(u))

\* a uid sent, marked and persisted, beside a uid whose send failed for good
C1_Witness ==
  /\ \E p \in Polls, u \in Uids :
       /\ pipe[p][u].st = "sent"
       /\ u \notin Range(loaded)
       /\ u \in Range(disk.uids)
  /\ \E p \in Polls, u \in Uids :
       /\ pipe[p][u].st = "failed"
       /\ u \notin Range(processedUids)

\* C2: with a Seen-Set list in place, no uid has two successful sends in one
\* process run (a second offering of a uid performs no send).
C2_SentAtMostOnce ==
  hasUids => \A u \in Uids : Cardinality(SendsOk(u)) <= 1

\* C3: the per-message pipelines of two different polls are never in flight
\* together.
C3_PollsSerialized ==
  \A p \in Polls, q \in Polls : p # q => ~(Active(p) /\ Active(q))

\* C4: once markProcessed(uid) has returned, hasProcessed(uid) is true (no
\* run of this specification evicts a uid it has marked).
C4_SeenAfterMark ==
  \A p \in Polls, u \in Uids : pipe[p][u].st = "sent" => hasProcessed(u)

\* C5: a Seen-Set list never holds more than 2000 uids, and it is the last
\* 2000 (or fewer) of the uids loaded and then appended, in append order.
C5_CapInvariant ==
  hasUids =>
    /\ Len(processedUids) <= KeepLast
    /\ processedUids = SliceLast(loaded \o MarkedUids, KeepLast)

\* the oldest loaded uid has been evicted by an append at the cap
C5_Witness ==
  /\ hasUids
  /\ Len(loaded \o MarkedUids) > KeepLast
  /\ Len(processedUids) = KeepLast
  /\ processedUids[1] # loaded[1]
  /\ processedUids[KeepLast] = MarkedUids[Len(marked)]

\* C6: a send makes at most 4 HTTP attempts, and one that has failed for good
\* has made exactly 4 and has not marked its uid.
C6_RetryBound ==
  \A p \in Polls, u \in Uids :
    /\ pipe[p][u].att <= 4
    /\ pipe[p][u].st = "failed" =>
         /\ pipe[p][u].att = 4
         /\ Occ(marked, <<p, u>>) = 0

\* a send has failed for good
C6_Witness ==
  \E p \in Polls, u \in Uids : pipe[p][u].st = "failed" /\ pipe[p][u].att = 4

\* C7: while the sends of a uid have only failed, the uid is in the Seen-Set
\* neither in memory nor on disk, and a poll that offers it again after the
\* failure does not skip it: once parsed, it waits and sends.
C7_FailureLeavesRetryable ==
  /\ \A u \in Uids :
       ( /\ \E p \in Polls : pipe[p][u].st = "failed"
         /\ SendsOk(u) = {}
         /\ u \notin Range(loaded) )
       => /\ ~hasProcessed(u)
          /\ u \notin Range(disk.uids)
          /\ \A q \in Polls : pipe[q][u].st # "skipped"
  /\ \A x \in rechecked :
       pipe[x[1]][x[2]].st \in {"waiting", "sending", "failed", "writing", "sent", "markFailed"}

\* after the send of a uid failed in one poll, a later poll sends it again
C7_Witness ==
  \E x \in rechecked : hasUids /\ pipe[x[1]][x[2]].st = "sending"

\* the candidates of poll p have all been yielded and have all ended sent or skipped
PollDone(p) ==
  /\ poll[p].st = "resolved"
  /\ poll[p].next > Len(poll[p].cand)
  /\ \A u \in Range(poll[p].cand) \cap Uids : pipe[p][u].st \in {"skipped", "sent"}
NewOf(p) == {u \in Range(poll[p].cand) \cap Uids : pipe[p][u].st = "sent"}
SeenOf(p) == {u \in Range(poll[p].cand) \cap Uids : pipe[p][u].st = "skipped"}
Mixed(p) == NewOf(p) # {} /\ SeenOf(p) # {}
MarksOf(p) == {i \in 1..Len(marked) : marked[i][1] = p}

\* C8 as stated: when a poll with seen and new candidates completes with all
\* sends successful, each new candidate has had exactly one POST and the
\* Seen-Set is longer than at the start of the poll by the number of new
\* candidates.
C8_GrowsByNew ==
  [][\A p \in Polls :
       (~PollDone(p) /\ PollDone(p)' /\ Mixed(p)')
       => /\ \A u \in NewOf(p)' : pipe'[p][u].att = 1
          /\ Len(processedUids') - poll'[p].len0 = Cardinality(NewOf(p)')]_vars

\* C8 amended: a completed poll with seen and new candidates has made one
\* send (1 to 4 POSTs) and one markProcessed call per new candidate and none
\* per seen candidate; the Seen-Set is longer by the number of new candidates
\* when no other poll has appended and the cap is not reached.
C8_OneSendOneMarkPerNew ==
  \A p \in Polls :
    (PollDone(p) /\ Mixed(p))
    => /\ \A u \in NewOf(p) :
            /\ pipe[p][u].att \in 1..4
            /\ Occ(marked, <<p, u>>) = 1
       /\ \A u \in SeenOf(p) :
            /\ pipe[p][u].att = 0
            /\ Occ(marked, <<p, u>>) = 0
       /\ Cardinality(MarksOf(p)) = Cardinality(NewOf(p))
       /\ (MarksOf(p) = 1..Len(marked) /\ Len(loaded) + Len(marked) <= KeepLast)
            => Len(processedUids) = poll[p].len0 + Cardinality(NewOf(p))

\* two candidates, one seen and one new: one POST, one mark, growth of 1
C8_Witness ==
  \E p \in Polls :
    /\ PollDone(p)
    /\ Cardinality(SeenOf(p)) = 1
    /\ Cardinality(NewOf(p)) = 1
    /\ \A u \in NewOf(p) : pipe[p][u].att = 1
    /\ Len(marked) = 1
    /\ Len(processedUids) = poll[p].len0 + 1

\* C9: a session closed by an error has a reconnect under way: a connect
\* retry or a start() is pending.
C9_ErrorReconnects ==
  \A s \in Calls :
    (s = imap /\ sess[s].sock = "failed")
    => \E c \in Calls : call[c].st \in {"backoff", "pending"}

\* C10: every 'end' event of a session schedules one new start().
C10_EndSchedulesStart ==
  [][\A s \in Calls :
       EvEnd(s) => /\ nstarts' = nstarts + 1
                   /\ call'[nstarts'].st = "pending"]_vars

\* the sessions that are connecting or connected
LiveSessions == {s \in Calls : sess[s].sock \in {"connecting", "auth"}}

\* C11: at most one session is connecting or connected, and at most one
\* 'mail' handler is registered on the live sessions.
C11_SingleSession ==
  /\ Cardinality(LiveSessions) <= 1
  /\ CountListeners(LiveSessions) <= 1

\* another candidate of poll p has ended in a parse error or in a failed send
OtherFailed(p, u) == \E v \in Uids \ {u} : pipe[p][v].st \in {"parseErr", "failed"}

\* C12: when a candidate of a poll has ended in a parse error or a failed
\* send, every other candidate of the poll still takes each of its own steps:
\* its parse can settle, its 5000 ms timer is pending, its POST can succeed,
\* its store write is queued, and once sent it has been marked.
C12_Isolation ==
  \A p \in Polls, u \in Uids :
    OtherFailed(p, u) =>
      /\ pipe[p][u].st = "parsing" => ENABLED ParseDone(p, u, TRUE)
      /\ pipe[p][u].st = "waiting" => (Occ(waitQ, <<p, u>>) = 1 /\ ENABLED WaitDone)
      /\ pipe[p][u].st = "sending" => ENABLED HttpOk(p, u)
      /\ pipe[p][u].st = "writing" =>
           /\ \E i \in 1..Len(writeQ) : writeQ[i].p = p /\ writeQ[i].u = u
           /\ ENABLED WriteOk
      /\ pipe[p][u].st = "sent" => Occ(marked, <<p, u>>) = 1

\* the first candidate of a poll failed, the second one is sent and marked
C12_Witness ==
  \E p \in Polls :
    /\ poll[p].cand = <<1, 2>>
    /\ pipe[p][1].st \in {"parseErr", "failed"}
    /\ pipe[p][2].st = "sent"
    /\ hasProcessed(2)
    /\ 2 \in Range(disk.uids)

\* C13: a body longer than the maximum n gives an excerpt of exactly n
\* characters that ends with the ellipsis; a body of at most n characters
\* gives its escaped text, unmodified.
C13_ExcerptTruncation ==
  fmt.pc = "done" =>
    /\ Len(fmt.text) > fmt.n =>
         /\ Len(fmt.bodyText) = fmt.n
         /\ fmt.bodyText[Len(fmt.bodyText)] = Ellipsis
    /\ Len(fmt.text) <= fmt.n => fmt.bodyText = escapeHtml(fmt.text)

\* C14: the 5000 ms wait of a send begins after the previous send was
\* issued, so no two waits are pending together (two 5000 ms timers that are
\* pending at the same instant fire, and issue their first POSTs, less than
\* 5000 ms apart).
C14_WaitsSeparateSends == Len(waitQ) <= 1

\* C15: once the mailbox is open, the 'mail' event of a message that arrives
\* when no search is outstanding (so that no poll already under way will find
\* it) starts a poll, also while the initial sweep is still running.
C15_EveryPushPolls ==
  [][\A u \in Uids :
       ( /\ NewMail(u)
         /\ BoxOpen(sess, imap)
         /\ \A p \in Polls : poll[p].st # "search" )
       => npolls' > npolls]_vars

\* the messages of OldMail stay in the Seen-Set (their chains have no effect)
OldMailSeen == \A u \in mailbox \ Uids : hasProcessed(u)

\* C16: the first message of the search results that is not in the Seen-Set
\* (every earlier result is in it) is a candidate of the poll, also when the
\* search returns more than 50 results.
C16_FirstUnseenIsCandidate ==
  [][\A p \in Polls :
       SearchDone(p, FALSE) =>
         \A u \in mailbox :
           (~hasProcessed(u) /\ \A v \in mailbox : v < u => hasProcessed(v))
           => u \in Range(poll'[p].cand)]_vars

\* the calls of start() whose connect retries are exhausted by this step
Exhausting == {c \in Calls : call[c].st # "failed" /\ call'[c].st = "failed"}

\* C17: a start() makes at most 4 connect attempts; the step in which its
\* fourth attempt fails leaves the process running and schedules exactly one
\* new start() for it.
C17_ConnectRetryBound ==
  [][/\ \A c \in Calls : call'[c].att <= 4
     /\ \A c \in Exhausting :
          /\ call[c].att = 4
          /\ alive'
          /\ nstarts' = nstarts + Cardinality(Exhausting)
          /\ \A d \in (nstarts + 1)..nstarts' : call'[d] = [st |-> "pending", att |-> 0]]_vars

\* four connect attempts of the first start() have failed, a second start()
\* is scheduled
C17_Witness ==
  /\ call[1] = [st |-> "failed", att |-> 4]
  /\ nerrors = 4
  /\ alive
  /\ nstarts = 2
  /\ call[2].st = "pending"

\* C18: no 'error' event, whatever listeners are left on its session, and no
\* other failure ends the process.
C18_NeverCrashes == alive

\* C19: when the store write of markProcessed(uid) has failed, uid is not in
\* the Seen-Set in memory, and with no write outstanding the Seen-Set in
\* memory is the one on disk.
C19_WriteFailureLeavesUnseen ==
  \A p \in Polls, u \in Uids :
    pipe[p][u].st = "markFailed" =>
      /\ ~hasProcessed(u)
      /\ writeQ = <<>> => processedUids = disk.uids

\* C20: in one poll, a message yielded after another one has its first POST
\* issued only when the first POST of the earlier one has been issued (or the
\* earlier one has no send to make: it was skipped or its parse failed).
C20_SendsInYieldOrder ==
  \A p \in Polls, i \in 1..FetchLimit, j \in 1..FetchLimit :
    ( /\ i < j
      /\ j < poll[p].next
      /\ poll[p].cand[i] \in Uids
      /\ poll[p].cand[j] \in Uids
      /\ pipe[p][poll[p].cand[j]].att >= 1 )
    => pipe[p][poll[p].cand[i]].st \notin {"parsing", "waiting"}

====
